---- MODULE Spec2Model ----
(***************************************************************************)
(* Verification model of the voicing-frontend audio core:                  *)
(*   - VoiceLoginRecorder  (src/src/components/VoiceLoginRecorder.tsx)      *)
(*   - AudioRecorder       (src/src/components/AudioRecorder.tsx)           *)
(*   - the three WAV encoders (AudioRecorder, AudioPlayer, DashboardPage)   *)
(*                                                                         *)
(* React state and refs of a component are the fields of one record; each  *)
(* event handler is an operator from the record before the event to the    *)
(* record after it.  An invocation of an async handler is a "call" whose   *)
(* pc names the await it is suspended at and whose fields hold the values  *)
(* its closure captured when it was invoked.                               *)
(***************************************************************************)
EXTENDS Integers, Sequences, FiniteSets, TLC

VARIABLES now, vl, ar, wav, dsp, pt, pl

vars == <<now, vl, ar, wav, dsp, pt, pl>>

(* ------------------------------ bounds --------------------------------- *)
MaxStarts == 2
MaxChunks == 1
ClockStepMs == 500
MaxNow == 5500
AR_MaxNow == 1500
MaxLen == 2
SampleDen == 5
SampleMaxNum == 6
PropMaxDurationMs == 1000
MixMaxNum == 1
PT_MaxSteps == 7
AP_Width == 2
AP_DurationSec == 6
AP_MaxSamples == 30
AP_MaxDrags == 2
MaxSuppress == 1
AP_MaxUrls == 3

(* ------------------------- program constants --------------------------- *)
TARGET_SAMPLE_RATE == 16000
MIN_DURATION_MS == 1500
DEFAULT_MAX_DURATION_MS == 5000
PARTICLE_COUNT == 15
\* AudioPlayer zoom, in tenths: useState(1), Math.max(0.1, zoomLevel - 0.5),
\* Math.min(10, zoomLevel + 0.5)
zoomInitial == 10
zoomMin == 1
zoomStep == 5
zoomMax == 100
\* AudioPlayer key steps, in seconds
smallStep == 1
largeStep == 5

(* ------------------------------ helpers -------------------------------- *)
Max(a, b) == IF a > b THEN a ELSE b
Min(a, b) == IF a < b THEN a ELSE b

(***************************************************************************)
(*                         VoiceLoginRecorder                              *)
(***************************************************************************)

\* useState / useRef initial values (lines 24-37); no call has been made.
VL_Init ==
  [ isRecording |-> FALSE, durationMs |-> 0, status |-> "idle",
    mediaRecorderRef |-> 0, streamRef |-> 0, audioCtxRef |-> 0,
    analyserRef |-> 0, sourceRef |-> 0, chunksRef |-> <<>>,
    startTsRef |-> 0, rafIdRef |-> 0, timerRef |-> 0,
    liveTracks |-> {}, connected |-> {}, timers |-> {}, rafs |-> {},
    ctxCount |-> 0, stopTasks |-> <<>>, calls |-> <<>> ]

\* cleanup(): cancel the level loop and the timer the refs name, disconnect
\* the nodes the refs name, stop the tracks of streamRef, null the refs.
VL_cleanup(s) ==
  [s EXCEPT !.rafs = @ \ {s.rafIdRef}, !.rafIdRef = 0,
            !.timers = @ \ {s.timerRef}, !.timerRef = 0,
            !.connected = @ \ {s.sourceRef},
            !.liveTracks = @ \ {s.streamRef},
            !.sourceRef = 0, !.analyserRef = 0, !.streamRef = 0]

\* stopRecording(): stop the recorder mediaRecorderRef names when it is
\* recording, clear isRecording, cancel the level loop and the timer.
VL_stopRecording_resetStatus(s, t) ==
  [s EXCEPT !.isRecording = FALSE, !.status = "idle"]

VL_stopRecording(s, t) ==
  LET r == s.mediaRecorderRef
      stops == r # 0 /\ s.calls[r].pc = "recording"
      s1 == IF stops
              THEN [s EXCEPT !.calls[r].pc = "stopping",
                             !.calls[r].elapsed = t - s.calls[r].startTs,
                             !.stopTasks = Append(@, r)]
              ELSE s
  IN [s1 EXCEPT !.isRecording = FALSE,
                !.rafs = @ \ {s.rafIdRef}, !.rafIdRef = 0,
                !.timers = @ \ {s.timerRef}, !.timerRef = 0]

\* startRecording() up to its await of getUserMedia.  The closure the call
\* runs in captured durationMs and isRecording of the render it comes from.
VL_startRecording(s) ==
  IF s.isRecording THEN s
  ELSE LET s1 == VL_cleanup(s)
       IN [s1 EXCEPT !.chunksRef = <<>>, !.durationMs = 0,
                        !.status = "recording",
                        !.calls = Append(@, [pc |-> "awaitMic",
                                             duration |-> s.durationMs,
                                             startTs |-> 0, elapsed |-> 0,
                                             assembled |-> FALSE,
                                             blob |-> <<>>, delivered |-> <<>>,
                                             errors |-> <<>>, recorded |-> <<>>])]

\* startRecording() after getUserMedia resolved: stream, analysis nodes,
\* recorder, recorder.start(100), level monitor, duration timer.
VL_micGranted(s, c, t) ==
  [s EXCEPT !.streamRef = c, !.liveTracks = @ \cup {c},
            !.audioCtxRef = c, !.ctxCount = @ + 1,
            !.sourceRef = c, !.analyserRef = c, !.connected = @ \cup {c},
            !.mediaRecorderRef = c,
            !.calls[c].pc = "recording", !.calls[c].startTs = t,
            !.isRecording = TRUE, !.startTsRef = t,
            !.rafs = @ \cup {c}, !.rafIdRef = c,
            !.timers = @ \cup {c}, !.timerRef = c]

\* the message the catch of startRecording hands to onError
VL_startErrorKind(msg) ==
  IF msg \in {"Permission denied", "NotAllowedError"} THEN "permission"
  ELSE "couldNotStart"

\* startRecording() when getUserMedia rejected: the catch block.  The call
\* ends "denied" when the rejection was a permission denial.
VL_micRejected(s, c, msg) ==
  LET s1 == [s EXCEPT !.calls[c].errors = Append(@, VL_startErrorKind(msg)),
                      !.status = "idle",
                      !.calls[c].pc = IF msg = "Permission denied"
                                        THEN "denied" ELSE "startFailed"]
  IN VL_cleanup(s1)

\* recorder.ondataavailable: keep the chunk when it is not empty.
VL_ondataavailable(s, c, size) ==
  IF size > 0
    THEN LET chunk == <<c, Len(s.calls[c].delivered) + 1>>
         IN [s EXCEPT !.chunksRef = Append(@, chunk),
                      !.calls[c].delivered = Append(@, chunk)]
    ELSE s

\* the duration the stop handler tests against the minimum
VL_onstopDuration(s, c) == s.calls[c].duration

\* recorder.onstop up to its first await: the minimum-duration test, then
\* the blob is assembled from chunksRef.
VL_onstop(s, c) ==
  LET duration == VL_onstopDuration(s, c)
      s1 == [s EXCEPT !.status = "processing"]
  IN IF duration < MIN_DURATION_MS
       THEN VL_cleanup([s1 EXCEPT !.calls[c].errors = Append(@, "tooShort"),
                                  !.status = "idle", !.calls[c].pc = "short"])
       ELSE [s1 EXCEPT !.calls[c].pc = "decoding",
                       !.calls[c].assembled = TRUE,
                       !.calls[c].blob = s.chunksRef]

\* recorder.onstop after decodeAudioData and resamplePcm settled.
VL_decoded(s, c, ok) ==
  LET s1 == IF ok
              THEN [s EXCEPT !.calls[c].recorded = Append(@, TARGET_SAMPLE_RATE),
                             !.status = "idle", !.calls[c].pc = "done"]
              ELSE [s EXCEPT !.calls[c].errors = Append(@, "processing"),
                             !.status = "idle", !.calls[c].pc = "decodeFailed"]
  IN VL_cleanup(s1)

\* the interval callback: publish the elapsed time, auto-stop at the maximum
VL_timerTick(s, t) ==
  LET elapsed == t - s.startTsRef
      s1 == [s EXCEPT !.durationMs = elapsed]
  IN IF elapsed >= DEFAULT_MAX_DURATION_MS THEN VL_stopRecording(s1, t) ELSE s1

\* one frame of the level monitor: it ends when analyserRef is null,
\* otherwise it requests the next frame and stores its id in rafIdRef.
VL_monitor(s, l) ==
  IF s.analyserRef = 0 THEN [s EXCEPT !.rafs = @ \ {l}]
  ELSE [s EXCEPT !.rafIdRef = l]

VL_Calls == 1..Len(vl.calls)

\* the record button is disabled while status is "processing" (line 257)
VL_ButtonEnabled == vl.status # "processing"

VL_Press ==
  /\ VL_ButtonEnabled
  /\ Len(vl.calls) < MaxStarts
  /\ vl' = VL_startRecording(vl)
  /\ UNCHANGED <<now, ar, wav, dsp, pt, pl>>

VL_Release ==
  /\ VL_ButtonEnabled
  /\ vl' = VL_stopRecording(vl, now)
  /\ UNCHANGED <<now, ar, wav, dsp, pt, pl>>

VL_MicGranted ==
  \E c \in VL_Calls :
    /\ vl.calls[c].pc = "awaitMic"
    /\ vl' = VL_micGranted(vl, c, now)
    /\ UNCHANGED <<now, ar, wav, dsp, pt, pl>>

VL_MicRejected ==
  \E c \in VL_Calls, msg \in {"Permission denied", "Requested device not found"} :
    /\ vl.calls[c].pc = "awaitMic"
    /\ vl' = VL_micRejected(vl, c, msg)
    /\ UNCHANGED <<now, ar, wav, dsp, pt, pl>>

\* a timeslice elapsed on a recording recorder (recorder.start(100))
VL_DataAvailable ==
  \E c \in VL_Calls, size \in {0, 1} :
    /\ vl.calls[c].pc = "recording"
    /\ Len(vl.calls[c].delivered) < MaxChunks
    /\ vl' = VL_ondataavailable(vl, c, size)
    /\ UNCHANGED <<now, ar, wav, dsp, pt, pl>>

\* the browser stops a recorder whose stream has no live track left
VL_TracksEnded ==
  \E c \in VL_Calls :
    /\ vl.calls[c].pc = "recording"
    /\ c \notin vl.liveTracks
    /\ vl' = [vl EXCEPT !.calls[c].pc = "stopping",
                        !.calls[c].elapsed = now - vl.calls[c].startTs,
                        !.stopTasks = Append(@, c)]
    /\ UNCHANGED <<now, ar, wav, dsp, pt, pl>>

\* the task a stop queues: the last dataavailable, then the stop event;
\* the tasks of the recorders run in the order they were queued
VL_OnStop ==
  \E c \in VL_Calls, size \in {0, 1} :
    /\ vl.stopTasks # <<>> /\ c = Head(vl.stopTasks)
    /\ vl' = VL_onstop(VL_ondataavailable(
                         [vl EXCEPT !.stopTasks = Tail(@)], c, size), c)
    /\ UNCHANGED <<now, ar, wav, dsp, pt, pl>>

VL_Decoded ==
  \E c \in VL_Calls, ok \in BOOLEAN :
    /\ vl.calls[c].pc = "decoding"
    /\ vl' = VL_decoded(vl, c, ok)
    /\ UNCHANGED <<now, ar, wav, dsp, pt, pl>>

VL_MonitorFrame ==
  \E l \in vl.rafs :
    /\ vl' = VL_monitor(vl, l)
    /\ vl' # vl
    /\ UNCHANGED <<now, ar, wav, dsp, pt, pl>>

\* the clock is read only by a recording's timer and start/stop stamps, so
\* time is let pass only while a recorder records or an interval is armed
VL_ClockObserved ==
  vl.timers # {} \/ \E c \in 1..Len(vl.calls) : vl.calls[c].pc = "recording"

\* ClockStepMs pass; the armed intervals (period 100 ms, all running the same
\* callback on the same refs) have fired by then
VL_Tick ==
  /\ now < MaxNow
  /\ VL_ClockObserved
  /\ now' = now + ClockStepMs
  /\ vl' = IF vl.timers # {} THEN VL_timerTick(vl, now') ELSE vl
  /\ UNCHANGED <<ar, wav, dsp, pt, pl>>

(***************************************************************************)
(*                             AudioRecorder                               *)
(***************************************************************************)

\* useState / useRef initial values (lines 48-96); m is the maxDurationMs
\* prop (0 when the prop is not given).
AR_Init(m) ==
  [ isRecording |-> FALSE, hasRecording |-> FALSE, durationMs |-> 0,
    audioUrl |-> 0, staticWave |-> 0,
    lastResultRef |-> [src |-> 0, durationMs |-> 0],
    isPlaying |-> FALSE, maxDurationMs |-> m,
    mediaRecorderRef |-> 0, streamRef |-> 0, audioCtxRef |-> 0,
    analyserRef |-> 0, sourceRef |-> 0, rafIdRef |-> 0,
    isLiveAnimRef |-> FALSE, startTsRef |-> 0, chunksRef |-> <<>>,
    playRafRef |-> 0,
    liveTracks |-> {}, connected |-> {}, liveLoops |-> {}, playLoops |-> {},
    ctxCount |-> 0, stopTasks |-> <<>>, calls |-> <<>>, errors |-> <<>>,
    isProcessing |-> FALSE, selectedTrack |-> "original",
    separatedTracks |-> [original |-> 0, originalUrl |-> 0,
                         foreground |-> 0, background |-> 0],
    suppress |-> <<>>, response |-> <<>>, remoteCalls |-> 0,
    recorded |-> <<>> ]

\* cleanupAudioGraph(): cancel the frame rafIdRef names, stop the live loop,
\* disconnect the nodes the refs name; the AudioContext is kept.
AR_cleanupAudioGraph(s) ==
  [s EXCEPT !.liveLoops = @ \ {s.rafIdRef}, !.rafIdRef = 0,
            !.isLiveAnimRef = FALSE,
            !.connected = @ \ {s.sourceRef},
            !.sourceRef = 0, !.analyserRef = 0]

\* stopStream(): stop the tracks of the stream streamRef names.
AR_stopStream(s) ==
  [s EXCEPT !.liveTracks = @ \ {s.streamRef}, !.streamRef = 0]

\* resetRecording()
AR_resetRecording(s) ==
  AR_cleanupAudioGraph(
    [s EXCEPT !.isRecording = FALSE, !.hasRecording = FALSE,
              !.durationMs = 0, !.audioUrl = 0, !.staticWave = 0,
              !.chunksRef = <<>>])

\* a new invocation record; d is the durationMs its closure captured
AR_newCall(kind, pc, d) ==
  [kind |-> kind, pc |-> pc, durationMs |-> d, startTs |-> 0, elapsed |-> 0,
   assembled |-> FALSE, blob |-> <<>>, delivered |-> <<>>,
   available |-> FALSE, errors |-> <<>>]

\* handleStart() up to its await of getUserMedia: nothing but the call
AR_handleStart(s) ==
  [s EXCEPT !.calls = Append(@, AR_newCall("rec", "awaitMic", s.durationMs))]

\* handleStart() after getUserMedia resolved (lines 929-982)
AR_micGranted(s, c, t) ==
  [s EXCEPT !.streamRef = c, !.liveTracks = @ \cup {c},
            !.audioCtxRef = 1,
            !.ctxCount = IF s.audioCtxRef = 0 THEN @ + 1 ELSE @,
            !.sourceRef = c, !.analyserRef = c, !.connected = @ \cup {c},
            !.isLiveAnimRef = TRUE,
            !.liveLoops = @ \cup {c}, !.rafIdRef = c,
            !.chunksRef = <<>>,
            !.mediaRecorderRef = c,
            !.calls[c].pc = "recording", !.calls[c].startTs = t,
            !.startTsRef = t, !.isRecording = TRUE, !.durationMs = 0]

\* handleStart() when getUserMedia rejected: the catch block (line 983)
AR_micRejected(s, c) == [s EXCEPT !.calls[c].pc = "denied"]

\* handleStop()
AR_handleStop(s, t) ==
  LET r == s.mediaRecorderRef
      stops == r # 0 /\ s.calls[r].pc = "recording"
      s1 == IF stops
              THEN [s EXCEPT !.calls[r].pc = "stopping",
                             !.calls[r].elapsed = t - s.calls[r].startTs,
                             !.stopTasks = Append(@, r)]
              ELSE s
  IN [s1 EXCEPT !.isLiveAnimRef = FALSE, !.isRecording = FALSE]

\* mr.ondataavailable
AR_ondataavailable(s, c, size) ==
  IF size > 0
    THEN LET chunk == <<c, Len(s.calls[c].delivered) + 1>>
         IN [s EXCEPT !.chunksRef = Append(@, chunk),
                      !.calls[c].delivered = Append(@, chunk)]
    ELSE s

\* mr.onstop up to its first await (lines 947-953)
AR_onstop(s, c) ==
  LET s1 == AR_stopStream(AR_cleanupAudioGraph(s))
  IN [s1 EXCEPT !.calls[c].assembled = TRUE, !.calls[c].blob = s1.chunksRef,
                !.audioUrl = c, !.hasRecording = TRUE,
                !.calls[c].available = TRUE, !.calls[c].pc = "decoding"]

\* the durationMs the result of a stopped recording carries (line 972)
AR_resultDuration(s, c) == s.calls[c].durationMs

\* mr.onstop after decodeAudioData settled (lines 954-976)
AR_decoded(s, c, ok) ==
  IF ok
    THEN [s EXCEPT !.audioCtxRef = 1,
                   !.ctxCount = IF s.audioCtxRef = 0 THEN @ + 1 ELSE @,
                   !.staticWave = c,
                   !.lastResultRef = [src |-> c,
                                      durationMs |-> AR_resultDuration(s, c)],
                   !.calls[c].pc = "done"]
    ELSE [s EXCEPT !.audioCtxRef = 1,
                   !.ctxCount = IF s.audioCtxRef = 0 THEN @ + 1 ELSE @,
                   !.calls[c].pc = "decodeFailed"]

\* handleLoadFile() up to its first await (lines 999-1003)
AR_handleLoadFile(s) ==
  LET c == Len(s.calls) + 1
      call == [AR_newCall("file", "decoding", s.durationMs)
                 EXCEPT !.available = TRUE]
  IN [s EXCEPT !.calls = Append(@, call), !.audioUrl = c,
               !.hasRecording = TRUE]

\* handleLoadFile() after decodeAudioData settled (lines 1004-1030); the
\* duration of a loaded file is computed from its samples
AR_fileDecoded(s, c, ok) ==
  IF ok
    THEN [s EXCEPT !.audioCtxRef = 1,
                   !.ctxCount = IF s.audioCtxRef = 0 THEN @ + 1 ELSE @,
                   !.staticWave = c,
                   !.lastResultRef = [src |-> c, durationMs |-> 0],
                   !.calls[c].pc = "done"]
    ELSE [s EXCEPT !.audioCtxRef = 1,
                   !.ctxCount = IF s.audioCtxRef = 0 THEN @ + 1 ELSE @,
                   !.calls[c].pc = "decodeFailed"]

\* getCurrentResult(): the recording the result is built from (0: null);
\* a lastResultRef whose src is 0 is the null ref
AR_getCurrentResult(s) ==
  IF s.lastResultRef.src = 0 /\ s.staticWave # 0 THEN s.staticWave
  ELSE IF s.lastResultRef.src = 0 THEN 0
  ELSE s.lastResultRef.src

\* the id of a frame request no pending playback loop holds
AR_freshLoop(s) ==
  CHOOSE i \in 1..(Cardinality(s.playLoops) + 1) : i \notin s.playLoops

\* the play/pause button (lines 1419-1513)
AR_playPause(s) ==
  IF s.audioUrl = 0 THEN s
  ELSE IF s.isPlaying
    THEN [s EXCEPT !.isPlaying = FALSE, !.playLoops = @ \ {s.playRafRef}]
    ELSE IF s.staticWave = 0
      THEN [s EXCEPT !.isPlaying = TRUE]
      ELSE [s EXCEPT !.isPlaying = TRUE,
                     !.playLoops = @ \cup {AR_freshLoop(s)},
                     !.playRafRef = AR_freshLoop(s)]

\* el.onended (lines 1427-1432)
AR_onended(s) ==
  [s EXCEPT !.isPlaying = FALSE, !.playLoops = @ \ {s.playRafRef}]

\* one frame of drawLive's draw: it ends when isLiveAnimRef is false,
\* otherwise it paints and requests the next frame
AR_draw(s, l) ==
  IF ~s.isLiveAnimRef THEN [s EXCEPT !.liveLoops = @ \ {l}]
  ELSE [s EXCEPT !.rafIdRef = l]

\* the duration effect's frame (lines 1100-1109), run while isRecording
AR_tick(s, t) ==
  LET ms == Max(0, t - s.startTsRef)
      s1 == [s EXCEPT !.durationMs = ms]
  IN IF s.maxDurationMs # 0 /\ ms >= s.maxDurationMs
       THEN AR_handleStop(s1, t) ELSE s1

AR_Calls == 1..Len(ar.calls)

\* the Start button is rendered while not recording (line 1329)
AR_ClickStart ==
  /\ ~ar.isRecording
  /\ Len(ar.calls) < MaxStarts
  /\ ar' = AR_handleStart(ar)
  /\ UNCHANGED <<now, vl, wav, dsp, pt, pl>>

\* the Stop button is rendered while recording (line 1343)
AR_ClickStop ==
  /\ ar.isRecording
  /\ ar' = AR_handleStop(ar, now)
  /\ UNCHANGED <<now, vl, wav, dsp, pt, pl>>

AR_MicGranted ==
  \E c \in AR_Calls :
    /\ ar.calls[c].pc = "awaitMic"
    /\ ar' = AR_micGranted(ar, c, now)
    /\ UNCHANGED <<now, vl, wav, dsp, pt, pl>>

AR_MicRejected ==
  \E c \in AR_Calls :
    /\ ar.calls[c].pc = "awaitMic"
    /\ ar' = AR_micRejected(ar, c)
    /\ UNCHANGED <<now, vl, wav, dsp, pt, pl>>

\* the browser stops a recorder whose stream has no live track left
AR_TracksEnded ==
  \E c \in AR_Calls :
    /\ ar.calls[c].pc = "recording"
    /\ c \notin ar.liveTracks
    /\ ar' = [ar EXCEPT !.calls[c].pc = "stopping",
                        !.calls[c].elapsed = now - ar.calls[c].startTs,
                        !.stopTasks = Append(@, c)]
    /\ UNCHANGED <<now, vl, wav, dsp, pt, pl>>

\* the task a stop queues: the dataavailable with the whole recording
\* (mr.start() has no timeslice), then the stop event; the tasks of the
\* recorders run in the order they were queued
AR_OnStop ==
  \E c \in AR_Calls, size \in {0, 1} :
    /\ ar.stopTasks # <<>> /\ c = Head(ar.stopTasks)
    /\ ar' = AR_onstop(AR_ondataavailable(
                         [ar EXCEPT !.stopTasks = Tail(@)], c, size), c)
    /\ UNCHANGED <<now, vl, wav, dsp, pt, pl>>

AR_Decoded ==
  \E c \in AR_Calls, ok \in BOOLEAN :
    /\ ar.calls[c].pc = "decoding"
    /\ ar' = IF ar.calls[c].kind = "rec" THEN AR_decoded(ar, c, ok)
             ELSE AR_fileDecoded(ar, c, ok)
    /\ UNCHANGED <<now, vl, wav, dsp, pt, pl>>

\* the Load button is rendered while not recording (line 1354)
AR_LoadFile ==
  /\ ~ar.isRecording
  /\ Len(ar.calls) < MaxStarts
  /\ ar' = AR_handleLoadFile(ar)
  /\ UNCHANGED <<now, vl, wav, dsp, pt, pl>>

\* Reset and Play/Pause are rendered while hasRecording (line 1383)
AR_ClickReset ==
  /\ ar.hasRecording
  /\ ar' = AR_resetRecording(ar)
  /\ UNCHANGED <<now, vl, wav, dsp, pt, pl>>

AR_ClickPlayPause ==
  /\ ar.hasRecording
  /\ ar' = AR_playPause(ar)
  /\ ar' # ar
  /\ UNCHANGED <<now, vl, wav, dsp, pt, pl>>

\* the audio element reached its end while playing
AR_Ended ==
  /\ ar.isPlaying
  /\ ar' = AR_onended(ar)
  /\ UNCHANGED <<now, vl, wav, dsp, pt, pl>>

AR_LiveFrame ==
  \E l \in ar.liveLoops :
    /\ ar' = AR_draw(ar, l)
    /\ ar' # ar
    /\ UNCHANGED <<now, vl, wav, dsp, pt, pl>>

AR_ClockObserved ==
  ar.isRecording \/ \E c \in AR_Calls : ar.calls[c].pc = "recording"

\* ClockStepMs pass; the duration effect's frame has run by then
AR_Tick ==
  /\ now < AR_MaxNow
  /\ AR_ClockObserved
  /\ now' = now + ClockStepMs
  /\ ar' = IF ar.isRecording THEN AR_tick(ar, now') ELSE ar
  /\ UNCHANGED <<vl, wav, dsp, pt, pl>>

\* the buffers the service returns for the result of call c
AR_foreground(c) == 10 + c
AR_background(c) == 20 + c

\* what the remote suppressBackground call can settle with: a response with
\* success (with or without background samples), a response with
\* success = false (errorMessage possibly empty), a transport exception
AR_Responses ==
  {[kind |-> "success", msg |-> <<>>, bg |-> b] : b \in BOOLEAN}
    \cup {[kind |-> "failure", msg |-> m, bg |-> FALSE] :
            m \in {<<>>, <<"quota exceeded">>}}
    \cup {[kind |-> "throw", msg |-> <<"network down">>, bg |-> FALSE]}

\* the message the catch hands to onError (lines 1063-1065, 1090):
\* response?.errorMessage || 'Suppression failed' for success = false,
\* err?.message || 'Background suppression failed' for an exception
AR_suppressError(o) ==
  IF o.msg # <<>> THEN o.msg
  ELSE IF o.kind = "failure" THEN <<"Suppression failed">>
  ELSE <<"Background suppression failed">>

\* handleSuppressBackground() up to its await of the remote call
\* (lines 1050-1061); finally runs when there is no current result
AR_handleSuppressBackground(s) ==
  IF s.isProcessing THEN s
  ELSE LET cur == AR_getCurrentResult(s)
       IN IF cur = 0 THEN [s EXCEPT !.isProcessing = FALSE]
          ELSE [s EXCEPT !.isProcessing = TRUE,
                         !.suppress = <<[cur |-> cur, url |-> s.audioUrl]>>,
                         !.remoteCalls = @ + 1]

\* handleSuppressBackground() after the remote call settled with o
\* (lines 1063-1094)
AR_suppressSettled_keepFlag(s, o) ==
  [s EXCEPT !.errors = Append(@, AR_suppressError(o)),
            !.suppress = <<>>, !.response = <<o>>]

AR_suppressSettled(s, o) ==
  LET cur == s.suppress[1].cur
      fg == AR_foreground(cur)
  IN IF o.kind = "success"
       THEN [s EXCEPT !.separatedTracks =
                         [original |-> cur, originalUrl |-> s.suppress[1].url,
                          foreground |-> fg,
                          background |-> IF o.bg THEN AR_background(cur)
                                         ELSE 0],
                      !.staticWave = fg, !.audioUrl = fg,
                      !.selectedTrack = "foreground",
                      !.isProcessing = FALSE,
                      !.suppress = <<>>, !.response = <<o>>]
       ELSE [s EXCEPT !.errors = Append(@, AR_suppressError(o)),
                      !.isProcessing = FALSE,
                      !.suppress = <<>>, !.response = <<o>>]

\* the track buttons (lines 1231-1297)
AR_selectTrack(s, t) ==
  LET samples == s.separatedTracks[t]
      url == IF t = "original" THEN s.separatedTracks.originalUrl
             ELSE samples
  IN IF samples = 0 THEN [s EXCEPT !.selectedTrack = t]
     ELSE [s EXCEPT !.selectedTrack = t, !.audioUrl = url,
                    !.staticWave = samples]

\* the suppression button is rendered while hasRecording and enabled while
\* not processing (lines 1383, 1399-1400)
AR_ClickSuppress ==
  /\ ar.hasRecording /\ ~ar.isProcessing
  /\ ar.remoteCalls < MaxSuppress
  /\ ar' = AR_handleSuppressBackground(ar)
  /\ ar' # ar
  /\ UNCHANGED <<now, vl, wav, dsp, pt, pl>>

AR_SuppressSettled ==
  \E o \in AR_Responses :
    /\ ar.suppress # <<>>
    /\ ar' = AR_suppressSettled(ar, o)
    /\ UNCHANGED <<now, vl, wav, dsp, pt, pl>>

\* the track buttons are rendered once separatedTracks has keys (line 1224),
\* foreground and background only when that track exists
AR_SelectTrack ==
  \E t \in {"original", "foreground", "background"} :
    /\ ar.separatedTracks.foreground # 0
    /\ ar.separatedTracks[t] # 0
    /\ ar' = AR_selectTrack(ar, t)
    /\ ar' # ar
    /\ UNCHANGED <<now, vl, wav, dsp, pt, pl>>

\* Save (lines 1385-1389): onRecorded gets the current result; recorded
\* keeps what the last Save handed over
AR_ClickSave ==
  /\ ar.hasRecording
  /\ AR_getCurrentResult(ar) # 0
  /\ ar' = [ar EXCEPT !.recorded = <<AR_getCurrentResult(ar)>>]
  /\ ar' # ar
  /\ UNCHANGED <<now, vl, wav, dsp, pt, pl>>

(***************************************************************************)
(*                             WAV encoders                                *)
(*                                                                         *)
(* A Float32 sample is the rational k / SampleDen, held as its numerator   *)
(* k; a byte buffer is a sequence of bytes, offset o being element o + 1.  *)
(***************************************************************************)

\* the sample rates the recorder offers (AudioRecorder.tsx line 1583)
Rates == {16000, 22050, 24000, 32000, 44100, 48000}

SampleNums == (0 - SampleMaxNum)..SampleMaxNum

\* new ArrayBuffer(n): n zero bytes
ArrayBuffer(n) == [i \in 1..n |-> 0]

\* write bytes into buf from offset off on
SetBytes(buf, off, bytes) ==
  [i \in 1..Len(buf) |->
     IF i - 1 >= off /\ i - 1 < off + Len(bytes) THEN bytes[i - off] ELSE buf[i]]

\* Math.max(-1, Math.min(1, s)) on numerators
ClampSample(k) == Max(0 - SampleDen, Min(SampleDen, k))

\* the integer part of a / b (b > 0), rounding toward zero as ToInt16 does
TruncDiv(a, b) == IF a >= 0 THEN a \div b ELSE 0 - ((0 - a) \div b)

\* DataView.setInt16(offset, v, true): v wrapped to 16 bits, low byte first
Int16LE(v) ==
  LET u == v % 65536 IN <<u % 256, u \div 256>>

\* DataView.setUint16(offset, v, true)
Uint16LE(v) ==
  LET u == v % 65536 IN <<u % 256, u \div 256>>

\* DataView.setUint32(offset, v, true), for 0 <= v < 2^31
Uint32LE(v) ==
  <<v % 256, (v \div 256) % 256, (v \div 65536) % 256, (v \div 16777216) % 256>>

\* charCodeAt of the four tags
TagRIFF == <<82, 73, 70, 70>>
TagWAVE == <<87, 65, 86, 69>>
TagFmt == <<102, 109, 116, 32>>
TagData == <<100, 97, 116, 97>>

\* AudioRecorder.pcmToWav, sample loop body (lines 166-167)
AR_sample16(k) ==
  LET s == ClampSample(k)
  IN IF s < 0 THEN TruncDiv(s * 32768, SampleDen)
     ELSE TruncDiv(s * 32767, SampleDen)

\* AudioPlayer.pcmToWav, sample loop body (lines 378-379)
AP_sample16(k) ==
  LET sample == ClampSample(k)
  IN TruncDiv(sample * 32767, SampleDen)

\* DashboardPage.pcmToWav, sample loop body (lines 917-918)
Dash_sample16(k) ==
  LET s == ClampSample(k)
  IN IF s < 0 THEN TruncDiv(s * 32768, SampleDen)
     ELSE TruncDiv(s * 32767, SampleDen)

RECURSIVE AR_sampleLoop(_, _, _, _)
AR_sampleLoop(buf, samples, i, offset) ==
  IF i > Len(samples) THEN buf
  ELSE AR_sampleLoop(SetBytes(buf, offset, Int16LE(AR_sample16(samples[i]))),
                     samples, i + 1, offset + 2)

RECURSIVE AP_sampleLoop(_, _, _, _)
AP_sampleLoop(buf, samples, i, offset) ==
  IF i > Len(samples) THEN buf
  ELSE AP_sampleLoop(SetBytes(buf, offset, Int16LE(AP_sample16(samples[i]))),
                     samples, i + 1, offset + 2)

RECURSIVE Dash_sampleLoop(_, _, _, _)
Dash_sampleLoop(buf, samples, i, offset) ==
  IF i > Len(samples) THEN buf
  ELSE Dash_sampleLoop(SetBytes(buf, offset, Int16LE(Dash_sample16(samples[i]))),
                       samples, i + 1, offset + 2)

\* RunningHeader with the byte rate written without the block align
RunningHeader_rateOnly(buf, sampleRate, numChannels, bytesPerSample, dataSize) ==
  LET blockAlign == numChannels * bytesPerSample
      byteRate == sampleRate
      b1 == SetBytes(buf, 0, TagRIFF)
      b2 == SetBytes(b1, 4, Uint32LE(36 + dataSize))
      b3 == SetBytes(b2, 8, TagWAVE)
      b4 == SetBytes(b3, 12, TagFmt)
      b5 == SetBytes(b4, 16, Uint32LE(16))
      b6 == SetBytes(b5, 20, Uint16LE(1))
      b7 == SetBytes(b6, 22, Uint16LE(numChannels))
      b8 == SetBytes(b7, 24, Uint32LE(sampleRate))
      b9 == SetBytes(b8, 28, Uint32LE(byteRate))
      b10 == SetBytes(b9, 32, Uint16LE(blockAlign))
      b11 == SetBytes(b10, 34, Uint16LE(8 * bytesPerSample))
      b12 == SetBytes(b11, 36, TagData)
  IN SetBytes(b12, 40, Uint32LE(dataSize))

\* the 44 header bytes written by a running offset (AudioRecorder lines
\* 137-162, DashboardPage lines 889-914)
RunningHeader(buf, sampleRate, numChannels, bytesPerSample, dataSize) ==
  LET blockAlign == numChannels * bytesPerSample
      byteRate == sampleRate * blockAlign
      b1 == SetBytes(buf, 0, TagRIFF)
      b2 == SetBytes(b1, 4, Uint32LE(36 + dataSize))
      b3 == SetBytes(b2, 8, TagWAVE)
      b4 == SetBytes(b3, 12, TagFmt)
      b5 == SetBytes(b4, 16, Uint32LE(16))
      b6 == SetBytes(b5, 20, Uint16LE(1))
      b7 == SetBytes(b6, 22, Uint16LE(numChannels))
      b8 == SetBytes(b7, 24, Uint32LE(sampleRate))
      b9 == SetBytes(b8, 28, Uint32LE(byteRate))
      b10 == SetBytes(b9, 32, Uint16LE(blockAlign))
      b11 == SetBytes(b10, 34, Uint16LE(8 * bytesPerSample))
      b12 == SetBytes(b11, 36, TagData)
  IN SetBytes(b12, 40, Uint32LE(dataSize))

\* AudioRecorder.pcmToWav
AR_pcmToWav(samples, sampleRate) ==
  LET bytesPerSample == 2
      numChannels == 1
      dataSize == Len(samples) * bytesPerSample
      buffer == ArrayBuffer(44 + dataSize)
      hdr == RunningHeader(buffer, sampleRate, numChannels, bytesPerSample, dataSize)
  IN AR_sampleLoop(hdr, samples, 1, 44)

\* AudioPlayer.pcmToWav: the header is written at literal offsets
AP_pcmToWav(samples, sampleRate) ==
  LET length == Len(samples)
      buffer == ArrayBuffer(44 + length * 2)
      b1 == SetBytes(buffer, 0, TagRIFF)
      b2 == SetBytes(b1, 4, Uint32LE(36 + length * 2))
      b3 == SetBytes(b2, 8, TagWAVE)
      b4 == SetBytes(b3, 12, TagFmt)
      b5 == SetBytes(b4, 16, Uint32LE(16))
      b6 == SetBytes(b5, 20, Uint16LE(1))
      b7 == SetBytes(b6, 22, Uint16LE(1))
      b8 == SetBytes(b7, 24, Uint32LE(sampleRate))
      b9 == SetBytes(b8, 28, Uint32LE(sampleRate * 2))
      b10 == SetBytes(b9, 32, Uint16LE(2))
      b11 == SetBytes(b10, 34, Uint16LE(16))
      b12 == SetBytes(b11, 36, TagData)
      b13 == SetBytes(b12, 40, Uint32LE(length * 2))
  IN AP_sampleLoop(b13, samples, 1, 44)

\* DashboardPage.pcmToWav
Dash_pcmToWav(samples, sampleRate) ==
  LET bytesPerSample == 2
      numChannels == 1
      dataSize == Len(samples) * bytesPerSample
      buffer == ArrayBuffer(44 + dataSize)
      hdr == RunningHeader(buffer, sampleRate, numChannels, bytesPerSample, dataSize)
  IN Dash_sampleLoop(hdr, samples, 1, 44)

\* the buffers to encode: every sample sequence up to MaxLen, every rate
WavInputs ==
  { [samples |-> x, sampleRate |-> r, ar |-> <<>>, ap |-> <<>>, dash |-> <<>>] :
      x \in UNION { [1..n -> SampleNums] : n \in 0..MaxLen }, r \in Rates }

Wav_EncodeAR ==
  /\ wav.ar = <<>>
  /\ wav' = [wav EXCEPT !.ar = AR_pcmToWav(wav.samples, wav.sampleRate)]
  /\ UNCHANGED <<now, vl, ar, dsp, pt, pl>>

Wav_EncodeAP ==
  /\ wav.ap = <<>>
  /\ wav' = [wav EXCEPT !.ap = AP_pcmToWav(wav.samples, wav.sampleRate)]
  /\ UNCHANGED <<now, vl, ar, dsp, pt, pl>>

Wav_EncodeDash ==
  /\ wav.dash = <<>>
  /\ wav' = [wav EXCEPT !.dash = Dash_pcmToWav(wav.samples, wav.sampleRate)]
  /\ UNCHANGED <<now, vl, ar, dsp, pt, pl>>

(***************************************************************************)
(*                     mono mix of a decoded buffer                        *)
(*                                                                         *)
(* A decoded AudioBuffer is the sequence of its channels, each a sequence  *)
(* of sample numerators over SampleDen.  The buffer a path passes on holds *)
(* numerators over MixDen, so that the halving of a sum is exact; the       *)
(* output of a path is <<>> until the path has run, then <<buffer>>.        *)
(***************************************************************************)
MixDen == 2 * SampleDen

MixNums == (0 - MixMaxNum)..MixMaxNum

\* numberOfChannels of a decoded microphone recording or file
ChannelCounts == {1, 2}

\* audioBuf.getChannelData(0).slice(0): channel 0 as it is
Channel0(channels) == [i \in 1..Len(channels[1]) |-> 2 * channels[1][i]]

\* mixed[i] = (left[i] + right[i]) / 2
MeanOfLeftRight(channels) ==
  [i \in 1..Len(channels[1]) |-> channels[1][i] + channels[2][i]]

\* AudioRecorder mr.onstop, mono mix (lines 960-968)
AR_stopMono(channels) ==
  IF Len(channels) > 1 THEN MeanOfLeftRight(channels) ELSE Channel0(channels)

\* AudioRecorder handleLoadFile, mono (lines 1008-1016)
AR_loadMono(channels) ==
  IF Len(channels) > 1 THEN MeanOfLeftRight(channels) ELSE Channel0(channels)

\* AudioPlayer loadAudioFile, mono samples (lines 95-105)
AP_loadMono(channels) ==
  IF Len(channels) > 1 THEN MeanOfLeftRight(channels) ELSE Channel0(channels)

\* VoiceLoginRecorder recorder.onstop: rawPcm = getChannelData(0) (line 175)
VL_rawPcm(channels) == Channel0(channels)

\* the decoded buffers: every channel count, every length up to MaxLen
MixInputs ==
  { [channels |-> c, arStop |-> <<>>, arLoad |-> <<>>,
     apLoad |-> <<>>, vlStop |-> <<>>] :
      c \in UNION { [1..n -> [1..l -> MixNums]] :
                      n \in ChannelCounts, l \in 0..MaxLen } }

Mix_ARStop ==
  /\ dsp.arStop = <<>>
  /\ dsp' = [dsp EXCEPT !.arStop = <<AR_stopMono(dsp.channels)>>]
  /\ UNCHANGED <<now, vl, ar, wav, pt, pl>>

Mix_ARLoad ==
  /\ dsp.arLoad = <<>>
  /\ dsp' = [dsp EXCEPT !.arLoad = <<AR_loadMono(dsp.channels)>>]
  /\ UNCHANGED <<now, vl, ar, wav, pt, pl>>

Mix_APLoad ==
  /\ dsp.apLoad = <<>>
  /\ dsp' = [dsp EXCEPT !.apLoad = <<AP_loadMono(dsp.channels)>>]
  /\ UNCHANGED <<now, vl, ar, wav, pt, pl>>

Mix_VLStop ==
  /\ dsp.vlStop = <<>>
  /\ dsp' = [dsp EXCEPT !.vlStop = <<VL_rawPcm(dsp.channels)>>]
  /\ UNCHANGED <<now, vl, ar, wav, pt, pl>>

(***************************************************************************)
(*                              resamplePcm                                *)
(*                                                                         *)
(* The result of a call is [path, den, samples]: the branch that produced  *)
(* it and the samples as numerators over den.  The samples OfflineAudio-   *)
(* Context renders are the browser's; that branch records the length it    *)
(* asked for, with den = 0.  Rates and lengths are integers and the ratios *)
(* are kept exact; within the bounds a product length * ratio lies on a    *)
(* rounding tie only when the ratio is a binary fraction.                  *)
(***************************************************************************)

\* the quotient rounded down instead of to the nearest integer
MathRound_floor(num, den) == num \div den

\* Math.round(num / den), num >= 0, den > 0: ties go up
MathRound(num, den) == (2 * num + den) \div (2 * den)

\* Math.ceil(num / den), num >= 0, den > 0
MathCeil(num, den) == (num + den - 1) \div den

\* the body of the fallback loop for index i (0-based): srcPos = i / ratio,
\* out[i] = input[i0] * (1 - t) + input[i1] * t, as a numerator over toRate
FallbackSample(input, fromRate, toRate, i) ==
  LET i0 == (i * fromRate) \div toRate
      i1 == Min(i0 + 1, Len(input) - 1)
      t == (i * fromRate) % toRate
  IN input[i0 + 1] * (toRate - t) + input[i1 + 1] * t

\* the catch branch: linear interpolation
LinearInterpolation(input, fromRate, toRate) ==
  LET outLength == MathRound(Len(input) * toRate, fromRate)
  IN [path |-> "fallback", den |-> SampleDen * toRate,
      samples |-> [j \in 1..outLength |->
                     FallbackSample(input, fromRate, toRate, j - 1)]]

\* the try branch: the buffer the offline context rendered
OfflineRendering(input, fromRate, toRate) ==
  [path |-> "offline", den |-> 0,
   samples |-> [j \in 1..MathCeil(Len(input) * toRate, fromRate) |-> 0]]

\* resamplePcm without the test of the rates
AR_resamplePcm_always(input, fromRate, toRate, throws) ==
  IF throws THEN LinearInterpolation(input, fromRate, toRate)
  ELSE OfflineRendering(input, fromRate, toRate)

\* AudioRecorder resamplePcm; throws: the offline rendering failed
AR_resamplePcm(input, fromRate, toRate, throws) ==
  IF fromRate = toRate
    THEN [path |-> "same", den |-> SampleDen, samples |-> input]
  ELSE IF throws THEN LinearInterpolation(input, fromRate, toRate)
  ELSE OfflineRendering(input, fromRate, toRate)

\* VoiceLoginRecorder resamplePcm
VL_resamplePcm(input, fromRate, toRate, throws) ==
  IF fromRate = toRate
    THEN [path |-> "same", den |-> SampleDen, samples |-> input]
  ELSE IF throws THEN LinearInterpolation(input, fromRate, toRate)
  ELSE OfflineRendering(input, fromRate, toRate)

\* the calls: every buffer up to MaxLen, every pair of rates
ResampleInputs ==
  { [input |-> x, fromRate |-> r1, toRate |-> r2, arOut |-> <<>>, vlOut |-> <<>>] :
      x \in UNION { [1..n -> MixNums] : n \in 0..MaxLen },
      r1 \in Rates, r2 \in Rates }

Resample_AR ==
  \E throws \in BOOLEAN :
    /\ dsp.arOut = <<>>
    /\ dsp' = [dsp EXCEPT !.arOut =
                 <<AR_resamplePcm(dsp.input, dsp.fromRate, dsp.toRate, throws)>>]
    /\ UNCHANGED <<now, vl, ar, wav, pt, pl>>

Resample_VL ==
  \E throws \in BOOLEAN :
    /\ dsp.vlOut = <<>>
    /\ dsp' = [dsp EXCEPT !.vlOut =
                 <<VL_resamplePcm(dsp.input, dsp.fromRate, dsp.toRate, throws)>>]
    /\ UNCHANGED <<now, vl, ar, wav, pt, pl>>

(***************************************************************************)
(*                     AudioRecorder particle system                       *)
(*                                                                         *)
(* A particle is [life, maxLife] with two history fields: spawnLife, the   *)
(* life it was created with, and ticks, the updateParticles calls it has   *)
(* been through.  Position, velocity and size do not decide membership and *)
(* are left out.  audioMetrics.level is held in hundredths.  A drawing     *)
(* loop keeps calling the updateParticles / drawStaticWithProgress of the  *)
(* render it was started in, so it holds the level and the isPlaying of    *)
(* that render: a loop is <<>> when it does not run, else <<level>>.       *)
(***************************************************************************)

\* values setAudioMetrics stores: silence and full level
PT_Levels == {0, 100}

\* values of Math.random() * 20, rounded down
PT_RandomLife == {0, 19}

PT_Init ==
  [ particles |-> <<>>, level |-> 0, isPlaying |-> FALSE, audioElRef |-> 0,
    liveLoop |-> <<>>, playLoop |-> <<>>, removed |-> {}, steps |-> 0 ]

\* what is remembered of a particle that left the set
PT_Gone(p, by) ==
  [spawnLife |-> p.spawnLife, maxLife |-> p.maxLife, ticks |-> p.ticks, by |-> by]

\* the particle updateParticles pushes (life: 60, maxLife: 60)
PT_liveParticle == [life |-> 60, maxLife |-> 60, spawnLife |-> 60, ticks |-> 0]

\* the particle drawStaticWithProgress creates at level l (lines 812-821)
PT_playParticle(l, rnd) ==
  [life |-> 40 + rnd + (2 * l) \div 5, maxLife |-> 60 + (3 * l) \div 5,
   spawnLife |-> 40 + rnd + (2 * l) \div 5, ticks |-> 0]

\* the spawn loop of updateParticles (lines 233-243): its bound reads
\* updated.length, which every push raises
RECURSIVE PT_pushLoop(_, _)
PT_pushLoop(updated, i) ==
  IF i < Min(PARTICLE_COUNT, Len(updated) + 3)
    THEN PT_pushLoop(Append(updated, PT_liveParticle), i + 1)
    ELSE updated

\* updateParticles() of a render whose audioMetrics.level was l
PT_updateParticles(s, l) ==
  LET aged == [i \in 1..Len(s.particles) |->
                 [s.particles[i] EXCEPT !.life = @ - 1, !.ticks = @ + 1]]
      Alive(p) == p.life > 0
      updated == SelectSeq(aged, Alive)
      gone == {PT_Gone(aged[i], "filter") : i \in {j \in 1..Len(aged) : aged[j].life <= 0}}
      result == IF Len(updated) < PARTICLE_COUNT /\ l > 10
                  THEN PT_pushLoop(updated, Len(updated))
                  ELSE updated
  IN [s EXCEPT !.particles = result, !.removed = @ \cup gone]

\* setParticles(prev => [...prev.slice(-15), newParticle]) (line 823)
PT_sliceAndPush(s, p) ==
  LET n == Len(s.particles)
      from == IF n > 15 THEN n - 14 ELSE 1
      gone == {PT_Gone(s.particles[i], "slice") : i \in 1..(from - 1)}
  IN [s EXCEPT !.particles = Append(SubSeq(s.particles, from, n), p),
               !.removed = @ \cup gone]

\* Math.min(5, Math.max(1, Math.floor(audioMetrics.level * 8))) (line 810)
PT_particleCount(l) == Min(5, Max(1, (l * 8) \div 100))

RECURSIVE PT_spawnLoop(_, _, _, _)
PT_spawnLoop(s, l, rnd, n) ==
  IF n = 0 THEN s
  ELSE PT_spawnLoop(PT_sliceAndPush(s, PT_playParticle(l, rnd)), l, rnd, n - 1)

\* the particle part of drawStaticWithProgress() of a render whose isPlaying
\* was playing and whose level was l (lines 807-825, 922-923)
PT_drawStaticWithProgress(s, playing, l, rnd) ==
  LET s1 == IF playing THEN PT_spawnLoop(s, l, rnd, PT_particleCount(l)) ELSE s
  IN PT_updateParticles(s1, l)

PT_Step(s) == [s EXCEPT !.steps = @ + 1]

\* handleStart ran drawLive(): the loop holds updateParticles of this render
PT_StartLive ==
  /\ pt.steps < PT_MaxSteps
  /\ pt.liveLoop = <<>>
  /\ pt' = PT_Step([pt EXCEPT !.liveLoop = <<pt.level>>])
  /\ UNCHANGED <<now, vl, ar, wav, dsp, pl>>

\* one frame of draw: setAudioMetrics, then updateParticles (lines 289, 419)
PT_LiveFrame ==
  \E l \in PT_Levels :
    /\ pt.steps < PT_MaxSteps
    /\ pt.liveLoop # <<>>
    /\ pt' = PT_Step(PT_updateParticles([pt EXCEPT !.level = l], pt.liveLoop[1]))
    /\ UNCHANGED <<now, vl, ar, wav, dsp, pl>>

\* the loop saw isLiveAnimRef false and ended
PT_StopLive ==
  /\ pt.steps < PT_MaxSteps
  /\ pt.liveLoop # <<>>
  /\ pt' = PT_Step([pt EXCEPT !.liveLoop = <<>>])
  /\ UNCHANGED <<now, vl, ar, wav, dsp, pl>>

\* the play button while not playing: the loop holds drawStaticWithProgress
\* of this render, whose isPlaying is false
PT_StartPlay ==
  /\ pt.steps < PT_MaxSteps
  /\ ~pt.isPlaying
  /\ pt' = PT_Step([pt EXCEPT !.isPlaying = TRUE, !.audioElRef = 1,
                              !.playLoop = <<pt.level>>])
  /\ UNCHANGED <<now, vl, ar, wav, dsp, pl>>

\* one frame of the playback loop (lines 1476-1509)
PT_PlayFrame ==
  \E l \in PT_Levels, rnd \in PT_RandomLife :
    /\ pt.steps < PT_MaxSteps
    /\ pt.playLoop # <<>>
    /\ pt' = PT_Step(PT_drawStaticWithProgress([pt EXCEPT !.level = l],
                                                FALSE, pt.playLoop[1], rnd))
    /\ UNCHANGED <<now, vl, ar, wav, dsp, pl>>

\* the play button while playing, or el.onended
PT_StopPlay ==
  /\ pt.steps < PT_MaxSteps
  /\ pt.isPlaying
  /\ pt' = PT_Step([pt EXCEPT !.isPlaying = FALSE, !.playLoop = <<>>])
  /\ UNCHANGED <<now, vl, ar, wav, dsp, pl>>

\* a click on the canvas once an audio element exists (lines 1310-1321):
\* drawStaticWithProgress of the current render
PT_CanvasClick ==
  \E rnd \in PT_RandomLife :
    /\ pt.steps < PT_MaxSteps
    /\ pt.audioElRef # 0
    /\ pt' = PT_Step(PT_drawStaticWithProgress(pt, pt.isPlaying, pt.level, rnd))
    /\ UNCHANGED <<now, vl, ar, wav, dsp, pl>>

(***************************************************************************)
(*                    AudioPlayer (src/unnamed/part_002)                   *)
(*                                                                         *)
(* Times are whole ticks of 1/AP_Width second, so that a seek to pixel x   *)
(* of a canvas AP_Width wide is a whole number; zoomLevel is held in       *)
(* tenths.  The hover preview (hoverX, hoverTime) is display state that    *)
(* no handler reads back and is left out.                                  *)
(***************************************************************************)

\* the duration loadedmetadata reports, in ticks
AP_Duration == AP_DurationSec * AP_Width

\* useState / useRef initial values (lines 36-68).  ev is the event handled
\* last: its pointer offset or key, and the position, the displayed time
\* and the paused flag it found.
AP_Ev(op, key, shift, x, t0, c0, p0) ==
  [op |-> op, key |-> key, shift |-> shift, x |-> x, t0 |-> t0,
   c0 |-> c0, p0 |-> p0, pd |-> FALSE]

\* an event of which nothing but its kind is kept
AP_Plain(op) == AP_Ev(op, "", FALSE, 0, 0, 0, FALSE)

AP_Init ==
  [ loaded |-> FALSE, samples |-> 0, width |-> AP_Width, metadata |-> FALSE,
    audioTime |-> 0, audioPaused |-> TRUE,
    isPlaying |-> FALSE, isPaused |-> FALSE, currentTime |-> 0,
    duration |-> 0, zoomLevel |-> zoomInitial, samplesPerPixel |-> 0,
    isSeeking |-> FALSE, listeners |-> <<>>,
    isProcessing |-> FALSE, tracks |-> <<>>, suppress |-> <<>>,
    errors |-> <<>>, response |-> <<>>, remoteCalls |-> 0,
    audioUrl |-> 1, loads |-> {1}, trackUrl |-> 0, elementUrl |-> 0,
    frameOfRef |-> FALSE, otherFrames |-> 0, painted |-> FALSE,
    animateOf |-> <<FALSE, 0, 0, 0, FALSE, zoomInitial>>,
    ev |-> AP_Plain("mount") ]

\* The pending animation frames, up to the renaming of their ids:
\* frameOfRef says that the frame animationFrameRef names is pending,
\* otherFrames counts the pending frames the ref no longer names.
\* cancelAnimationFrame(animationFrameRef.current) (lines 500, 505)
AP_cancelFrame_noop(s) == s

AP_cancelFrame(s) == [s EXCEPT !.frameOfRef = FALSE]

\* animationFrameRef.current = requestAnimationFrame(animate) (lines 346, 498)
AP_requestFrame(s) ==
  [s EXCEPT !.otherFrames = @ + (IF s.frameOfRef THEN 1 ELSE 0),
            !.frameOfRef = TRUE]

\* the animation-loop effect (lines 496-508) after a render: it runs when
\* isPlaying or animate changed, animate (lines 324-348) being rebuilt when
\* the tracks, currentTime, duration, isPlaying or drawWaveform (zoomLevel)
\* changed.  The cleanup of its last run cancels the frame of the ref, then
\* a frame is requested while playing and the ref's frame cancelled
\* otherwise.  painted: a frame has run the animate of this render.
AP_loopEffect(s) ==
  LET deps == <<s.loaded, s.samples, s.currentTime, s.duration,
                s.isPlaying, s.zoomLevel>>
      c == AP_cancelFrame(s)
      e == IF s.isPlaying THEN AP_requestFrame(c) ELSE AP_cancelFrame(c)
  IN IF deps = s.animateOf THEN s
     ELSE [e EXCEPT !.animateOf = deps, !.painted = FALSE]

\* the redraw effect (lines 511-515) while not playing: animate() draws the
\* selected track, and drawWaveform (line 186) computes
\* samplesPerPixel = Math.max(1, Math.floor(samples.length / width * zoomLevel))
AP_drawWaveform_unclamped(s) ==
  AP_loopEffect(
    IF s.loaded /\ ~s.isPlaying
      THEN [s EXCEPT !.samplesPerPixel =
                       (s.samples * s.zoomLevel) \div (s.width * 10)]
      ELSE s)

AP_drawWaveform(s) ==
  AP_loopEffect(
    IF s.loaded /\ ~s.isPlaying
      THEN [s EXCEPT !.samplesPerPixel =
                       Max(1, (s.samples * s.zoomLevel) \div (s.width * 10))]
      ELSE s)

\* the audioUrl prop changes to a new URL: the audioUrl effect (lines
\* 461-488) runs again and starts loadAudioFile for it; the loads of
\* earlier URLs stay in flight
AP_SetUrl ==
  /\ pl.audioUrl < AP_MaxUrls
  /\ pl' = [pl EXCEPT !.audioUrl = @ + 1, !.loads = @ \cup {pl.audioUrl + 1},
                      !.ev = AP_Plain("url")]
  /\ UNCHANGED <<now, vl, ar, wav, dsp, pt>>

\* the audioUrl effect once loadAudioFile of URL u resolved (lines 463-485):
\* the track is set and a new audio element created for u.  The component
\* is mounted with audioUrl 1, whose load is in flight from the start.
AP_Load ==
  \E n \in {1, AP_Width, AP_MaxSamples}, u \in pl.loads :
    /\ pl' = AP_drawWaveform([pl EXCEPT !.loaded = TRUE, !.samples = n,
                                  !.loads = @ \ {u},
                                  !.trackUrl = u, !.elementUrl = u,
                                  !.metadata = FALSE, !.audioTime = 0,
                                  !.audioPaused = TRUE,
                                  !.ev = AP_Plain("load")])
    /\ UNCHANGED <<now, vl, ar, wav, dsp, pt>>

\* zoom out button (line 776), then the redraw effect
AP_ZoomOut ==
  /\ pl.loaded
  /\ pl' = AP_drawWaveform([pl EXCEPT
                        !.zoomLevel = Max(zoomMin, pl.zoomLevel - zoomStep),
                        !.ev = AP_Plain("zoomOut")])
  /\ UNCHANGED <<now, vl, ar, wav, dsp, pt>>

\* zoom in button (line 792), then the redraw effect
AP_ZoomIn ==
  /\ pl.loaded
  /\ pl' = AP_drawWaveform([pl EXCEPT
                        !.zoomLevel = Min(zoomMax, pl.zoomLevel + zoomStep),
                        !.ev = AP_Plain("zoomIn")])
  /\ UNCHANGED <<now, vl, ar, wav, dsp, pt>>

\* loadedmetadata listener (lines 472-474)
AP_LoadedMetadata ==
  /\ pl.loaded /\ ~pl.metadata
  /\ pl' = AP_drawWaveform([pl EXCEPT !.metadata = TRUE, !.duration = AP_Duration,
                                !.ev = AP_Plain("loadedmetadata")])
  /\ UNCHANGED <<now, vl, ar, wav, dsp, pt>>

\* handlePlay (lines 518-531).  audio.play() of an element whose playback
\* has ended (the position is the end of the media) starts over from the
\* beginning; otherwise it plays on from the position.
AP_handlePlay_restart(s) ==
  [s EXCEPT !.audioPaused = FALSE, !.audioTime = 0,
            !.isPlaying = TRUE, !.isPaused = FALSE]

AP_handlePlay(s) ==
  LET play(a) == [a EXCEPT !.audioPaused = FALSE,
                           !.audioTime = IF a.metadata /\ a.audioTime = AP_Duration
                                           THEN 0 ELSE @]
  IN IF s.isPaused
       THEN play([s EXCEPT !.isPlaying = TRUE, !.isPaused = FALSE])
       ELSE play([s EXCEPT !.audioTime = 0, !.isPlaying = TRUE])

\* the Play button (line 707) is disabled without tracks
AP_ClickPlay ==
  /\ pl.loaded
  /\ pl' = AP_drawWaveform(AP_handlePlay([pl EXCEPT
                                      !.ev = AP_Ev("play", "", FALSE, 0, pl.audioTime, 0, pl.isPaused)]))
  /\ UNCHANGED <<now, vl, ar, wav, dsp, pt>>

\* handlePause (lines 533-540); the Pause button is disabled unless playing
AP_ClickPause ==
  /\ pl.isPlaying
  /\ pl' = AP_drawWaveform([pl EXCEPT !.audioPaused = TRUE, !.isPlaying = FALSE,
                                !.isPaused = TRUE,
                                !.ev = AP_Ev("pause", "", FALSE, 0, pl.audioTime, pl.currentTime, FALSE)])
  /\ UNCHANGED <<now, vl, ar, wav, dsp, pt>>

\* handleStop (lines 542-551); the Stop button is disabled without tracks
AP_ClickStop ==
  /\ pl.loaded
  /\ pl' = AP_drawWaveform([pl EXCEPT !.audioPaused = TRUE, !.audioTime = 0,
                                !.isPlaying = FALSE, !.isPaused = FALSE,
                                !.currentTime = 0,
                                !.ev = AP_Plain("stop")])
  /\ UNCHANGED <<now, vl, ar, wav, dsp, pt>>

\* handleSeek (lines 553-567) and handleMove (lines 574-584) with the
\* duration d of their closure: clamp the offset to the canvas, scale to d
AP_handleSeek(s, x, d) ==
  LET newTime == (Max(0, Min(s.width, x)) * d) \div s.width
  IN IF ~s.loaded \/ d = 0 THEN s
     ELSE [s EXCEPT !.audioTime = newTime, !.currentTime = newTime]

\* canvas onClick (line 670)
AP_Click ==
  \E x \in 0..AP_Width :
    /\ pl' = AP_drawWaveform(AP_handleSeek([pl EXCEPT
                                        !.ev = AP_Ev("click", "", FALSE, x, pl.audioTime, pl.currentTime, FALSE)],
                                     x, pl.duration))
    /\ UNCHANGED <<now, vl, ar, wav, dsp, pt>>

\* handleMouseDown (lines 570-594): seek, then register handleMove and
\* handleUp on the window; both close over the duration of this render
AP_MouseDown ==
  \E x \in 0..AP_Width :
    /\ Len(pl.listeners) < AP_MaxDrags
    /\ pl' = AP_drawWaveform(AP_handleSeek(
                 [pl EXCEPT !.isSeeking = TRUE,
                            !.listeners = Append(@, pl.duration),
                            !.ev = AP_Ev("down", "", FALSE, x, pl.audioTime, pl.currentTime, FALSE)],
                 x, pl.duration))
    /\ UNCHANGED <<now, vl, ar, wav, dsp, pt>>

\* a mousemove on the window: every registered handleMove (lines 574-584)
\* runs, in registration order, with the duration it closed over
AP_MouseMove ==
  \E x \in (0 - 1) .. (AP_Width + 1) :
    LET live == {i \in 1..Len(pl.listeners) : pl.listeners[i] # 0}
        last == CHOOSE i \in live : \A j \in live : j <= i
        s0 == [pl EXCEPT !.ev = AP_Ev("move", "", FALSE, x, pl.audioTime, pl.currentTime, FALSE)]
    IN /\ pl' = AP_drawWaveform(IF live = {} THEN s0
                          ELSE AP_handleSeek(s0, x, pl.listeners[last]))
       /\ UNCHANGED <<now, vl, ar, wav, dsp, pt>>

\* a mouseup on the window: every registered handleUp (lines 586-590) runs
AP_MouseUp ==
  /\ pl.listeners # <<>>
  /\ pl' = [pl EXCEPT !.isSeeking = FALSE, !.listeners = <<>>,
                      !.ev = AP_Plain("up")]
  /\ UNCHANGED <<now, vl, ar, wav, dsp, pt>>

\* the position handleKeyDown computes (lines 617-627), in ticks
AP_keyTime_unclamped(key, shift, t, d) ==
  LET delta == (IF shift THEN smallStep ELSE largeStep) * AP_Width
  IN IF key = "ArrowLeft" THEN t - delta ELSE t + delta

AP_keyTime(key, shift, t, d) ==
  LET delta == (IF shift THEN smallStep ELSE largeStep) * AP_Width
  IN IF key = "ArrowLeft" THEN Max(0, t - delta) ELSE Min(d, t + delta)

\* handleKeyDown (lines 614-632)
AP_KeyDown ==
  \E key \in {"ArrowLeft", "ArrowRight", "Enter"}, shift \in BOOLEAN :
    LET s0 == [pl EXCEPT !.ev = AP_Ev("key", key, shift, 0, pl.audioTime, pl.currentTime, FALSE)]
        t == AP_keyTime(key, shift, pl.audioTime, pl.duration)
    IN /\ pl' = AP_drawWaveform(
                  IF ~pl.loaded \/ pl.duration = 0
                       \/ key \notin {"ArrowLeft", "ArrowRight"}
                    THEN s0
                    ELSE [s0 EXCEPT !.audioTime = t, !.currentTime = t,
                                    !.ev.pd = TRUE])
       /\ UNCHANGED <<now, vl, ar, wav, dsp, pt>>

\* the element plays on by one second
AP_Advance ==
  /\ pl.loaded /\ pl.metadata /\ ~pl.audioPaused
  /\ pl.audioTime < AP_Duration
  /\ pl' = [pl EXCEPT !.audioTime = Min(AP_Duration, @ + AP_Width),
                      !.ev = AP_Plain("advance")]
  /\ UNCHANGED <<now, vl, ar, wav, dsp, pt>>

\* timeupdate listener (lines 476-478)
AP_TimeUpdate ==
  /\ pl.loaded
  /\ pl.currentTime # pl.audioTime
  /\ pl' = AP_drawWaveform([pl EXCEPT !.currentTime = pl.audioTime,
                                !.ev = AP_Plain("timeupdate")])
  /\ UNCHANGED <<now, vl, ar, wav, dsp, pt>>

\* playback reached the end: the element pauses and the ended listener
\* (lines 480-484) runs
AP_Ended ==
  /\ pl.loaded /\ pl.metadata /\ ~pl.audioPaused
  /\ pl.audioTime = AP_Duration
  /\ pl' = AP_drawWaveform([pl EXCEPT !.audioPaused = TRUE, !.isPlaying = FALSE,
                                !.isPaused = FALSE, !.currentTime = 0,
                                !.ev = AP_Plain("ended")])
  /\ UNCHANGED <<now, vl, ar, wav, dsp, pt>>

\* a pending animation frame runs its animate (lines 324-348): it draws
\* and, its closure's isPlaying being set, requests the next frame.  The
\* frame of the ref runs the animate of the last render; a frame the ref
\* lost runs an older one.
AP_Frame ==
  \E ofRef \in BOOLEAN :
    /\ IF ofRef THEN pl.frameOfRef ELSE pl.otherFrames > 0
    /\ pl' = IF ofRef
               THEN [AP_requestFrame(AP_cancelFrame(pl)) EXCEPT
                       !.painted = TRUE]
               ELSE AP_requestFrame([pl EXCEPT !.otherFrames = @ - 1])
    /\ UNCHANGED <<now, vl, ar, wav, dsp, pt>>

\* the message handleBackgroundSuppress hands to onError (lines 406-408,
\* 446): `Background suppression failed: ${error.message}`, the message
\* being response?.errorMessage || 'Suppression failed' for success = false
AP_suppressError(o) ==
  <<"Background suppression failed: ">>
    \o (IF o.kind = "failure" /\ o.msg = <<>> THEN <<"Suppression failed">>
        ELSE o.msg)

\* handleBackgroundSuppress() up to its await (lines 392-396); tracks keeps
\* the tracks appended to the loaded one
AP_handleBackgroundSuppress(s) ==
  IF ~s.loaded \/ s.isProcessing THEN s
  ELSE [s EXCEPT !.isProcessing = TRUE, !.suppress = <<1>>,
                 !.remoteCalls = @ + 1, !.ev = AP_Plain("suppress")]

\* handleBackgroundSuppress() after the remote call settled with o
\* (lines 405-449)
AP_suppressSettled(s, o) ==
  IF o.kind = "success"
    THEN [s EXCEPT !.tracks = @ \o (IF o.bg THEN <<"Foreground", "Background">>
                                    ELSE <<"Foreground">>),
                   !.isProcessing = FALSE,
                   !.suppress = <<>>, !.response = <<o>>,
                   !.ev = AP_Plain("suppressed")]
    ELSE [s EXCEPT !.errors = Append(@, AP_suppressError(o)),
                   !.isProcessing = FALSE,
                   !.suppress = <<>>, !.response = <<o>>,
                   !.ev = AP_Plain("suppressFailed")]

\* the suppression button is disabled without tracks and while processing
\* (line 747)
AP_ClickSuppress ==
  /\ pl.loaded /\ ~pl.isProcessing
  /\ pl.remoteCalls < MaxSuppress
  /\ pl' = AP_handleBackgroundSuppress(pl)
  /\ UNCHANGED <<now, vl, ar, wav, dsp, pt>>

AP_SuppressSettled ==
  \E o \in AR_Responses :
    /\ pl.suppress # <<>>
    /\ pl' = AP_suppressSettled(pl, o)
    /\ UNCHANGED <<now, vl, ar, wav, dsp, pt>>

(***************************************************************************)
(*              the stop handlers before any recording started             *)
(***************************************************************************)

\* stopRecording() of VoiceLoginRecorder (onMouseUp, onMouseLeave,
\* onTouchEnd of the record button), also while no recorder was started
\* yet; dsp.vl keeps the state it found and the state it left
Stop_VL ==
  /\ VL_ButtonEnabled
  /\ vl' = VL_stopRecording(vl, now)
  /\ dsp' = [dsp EXCEPT !.vl = <<vl, vl'>>]
  /\ UNCHANGED <<now, ar, wav, pt, pl>>

\* handleStop() of AudioRecorder applied while no recorder was ever started
\* (its button is rendered only while isRecording is set, line 1343)
Stop_AR ==
  /\ ar' = AR_handleStop(ar, now)
  /\ dsp' = [dsp EXCEPT !.ar = <<ar, ar'>>]
  /\ UNCHANGED <<now, vl, wav, pt, pl>>

(***************************************************************************)
(*                            specifications                               *)
(***************************************************************************)

\* the parts of the state a specification does not exercise
OthersIdle == dsp = 0 /\ pt = 0 /\ pl = 0

InitVL == now = 0 /\ vl = VL_Init /\ ar = AR_Init(0) /\ wav = 0 /\ OthersIdle

NextVL ==
  \/ VL_Press \/ VL_Release \/ VL_MicGranted \/ VL_MicRejected
  \/ VL_DataAvailable \/ VL_TracksEnded \/ VL_OnStop \/ VL_Decoded
  \/ VL_MonitorFrame \/ VL_Tick

SpecVL == InitVL /\ [][NextVL]_vars

InitAR ==
  /\ now = 0 /\ vl = VL_Init /\ wav = 0 /\ OthersIdle
  /\ \E m \in {0, PropMaxDurationMs} : ar = AR_Init(m)

NextAR ==
  \/ AR_ClickStart \/ AR_ClickStop \/ AR_MicGranted \/ AR_MicRejected
  \/ AR_TracksEnded \/ AR_OnStop \/ AR_Decoded \/ AR_LoadFile
  \/ AR_ClickReset \/ AR_ClickPlayPause \/ AR_Ended \/ AR_LiveFrame
  \/ AR_Tick

SpecAR == InitAR /\ [][NextAR]_vars

InitWav ==
  /\ now = 0 /\ vl = VL_Init /\ ar = AR_Init(0) /\ wav \in WavInputs
  /\ OthersIdle

NextWav == Wav_EncodeAR \/ Wav_EncodeAP \/ Wav_EncodeDash

SpecWav == InitWav /\ [][NextWav]_vars

InitMix ==
  /\ now = 0 /\ vl = VL_Init /\ ar = AR_Init(0) /\ wav = 0
  /\ dsp \in MixInputs /\ pt = 0 /\ pl = 0

NextMix == Mix_ARStop \/ Mix_ARLoad \/ Mix_APLoad \/ Mix_VLStop

SpecMix == InitMix /\ [][NextMix]_vars

InitResample ==
  /\ now = 0 /\ vl = VL_Init /\ ar = AR_Init(0) /\ wav = 0
  /\ dsp \in ResampleInputs /\ pt = 0 /\ pl = 0

NextResample == Resample_AR \/ Resample_VL

SpecResample == InitResample /\ [][NextResample]_vars

InitParticles ==
  /\ now = 0 /\ vl = VL_Init /\ ar = AR_Init(0) /\ wav = 0
  /\ dsp = 0 /\ pt = PT_Init /\ pl = 0

NextParticles ==
  \/ PT_StartLive \/ PT_LiveFrame \/ PT_StopLive
  \/ PT_StartPlay \/ PT_PlayFrame \/ PT_StopPlay \/ PT_CanvasClick

SpecParticles == InitParticles /\ [][NextParticles]_vars

InitPlayer ==
  /\ now = 0 /\ vl = VL_Init /\ ar = AR_Init(0) /\ wav = 0
  /\ dsp = 0 /\ pt = 0 /\ pl = AP_Init

NextZoom == AP_Load \/ AP_ZoomOut \/ AP_ZoomIn

SpecZoom == InitPlayer /\ [][NextZoom]_vars

NextPlayer ==
  \/ AP_Load \/ AP_LoadedMetadata
  \/ AP_ClickPlay \/ AP_ClickPause \/ AP_ClickStop
  \/ AP_Click \/ AP_MouseDown \/ AP_MouseMove \/ AP_MouseUp \/ AP_KeyDown
  \/ AP_Advance \/ AP_TimeUpdate \/ AP_Ended

SpecPlayer == InitPlayer /\ [][NextPlayer]_vars

\* the player while its audioUrl prop changes
NextLoads == AP_SetUrl \/ AP_Load \/ AP_LoadedMetadata \/ AP_ClickPlay

SpecLoads == InitPlayer /\ [][NextLoads]_vars

\* the player with its animation frames running
NextFrames ==
  \/ AP_Load \/ AP_LoadedMetadata \/ AP_ZoomIn
  \/ AP_ClickPlay \/ AP_ClickPause \/ AP_ClickStop \/ AP_Click
  \/ AP_Advance \/ AP_TimeUpdate \/ AP_Ended \/ AP_Frame

SpecFrames == InitPlayer /\ [][NextFrames]_vars

\* no microphone is ever granted: every start stays pending or is rejected
InitStop ==
  /\ now = 0 /\ vl = VL_Init /\ wav = 0 /\ pt = 0 /\ pl = 0
  /\ \E m \in {0, PropMaxDurationMs} : ar = AR_Init(m)
  /\ dsp = [vl |-> <<>>, ar |-> <<>>]

NextStop ==
  \/ VL_Press \/ VL_MicRejected \/ AR_ClickStart \/ AR_MicRejected
  \/ Stop_VL \/ Stop_AR

SpecStop == InitStop /\ [][NextStop]_vars

\* VoiceLoginRecorder with the button released at any moment, before or
\* after the microphone was granted: dsp.vl keeps the last release
NextRelease ==
  \/ VL_Press \/ Stop_VL \/ VL_MicGranted \/ VL_MicRejected \/ VL_Tick

SpecRelease == InitStop /\ [][NextRelease]_vars

\* background suppression of AudioRecorder on a loaded file and of
\* AudioPlayer on a loaded track
InitSuppress ==
  /\ now = 0 /\ vl = VL_Init /\ ar = AR_Init(0) /\ wav = 0
  /\ dsp = 0 /\ pt = 0 /\ pl = AP_Init

NextSuppress ==
  \/ AR_LoadFile \/ AR_Decoded \/ AR_ClickSuppress \/ AR_SuppressSettled
  \/ AP_Load \/ AP_ClickSuppress \/ AP_SuppressSettled

SpecSuppress == InitSuppress /\ [][NextSuppress]_vars

\* AudioRecorder with suppression, track selection and Save
NextTracks ==
  \/ AR_LoadFile \/ AR_Decoded \/ AR_ClickSuppress \/ AR_SuppressSettled
  \/ AR_SelectTrack \/ AR_ClickSave

SpecTracks == InitSuppress /\ [][NextTracks]_vars

(***************************************************************************)
(*                                claims                                   *)
(***************************************************************************)

VL_Recording == {c \in VL_Calls : vl.calls[c].pc = "recording"}
AR_Recording == {c \in AR_Calls : ar.calls[c].pc = "recording"}

\* C1: on one recorder component at most one MediaRecorder is recording and
\* at most one microphone stream is live, whatever the interleaving of start
\* requests, acquisition completions and stop requests.
C1_OneRecorder ==
  /\ Cardinality(VL_Recording) <= 1 /\ Cardinality(vl.liveTracks) <= 1
  /\ Cardinality(AR_Recording) <= 1 /\ Cardinality(ar.liveTracks) <= 1

\* C2: a VoiceLoginRecorder recording (the first after mount included) that
\* lasted at least MIN_DURATION_MS and whose stop handler finished without a
\* decode failure has called onRecorded exactly once, at 16000 Hz, and has
\* called onError not at all.
C2_LongRecordingDelivered ==
  \A c \in VL_Calls :
    (vl.calls[c].pc \in {"short", "done"} /\ vl.calls[c].elapsed >= MIN_DURATION_MS)
      => /\ vl.calls[c].recorded = <<TARGET_SAMPLE_RATE>>
         /\ vl.calls[c].errors = <<>>

\* C3: a VoiceLoginRecorder recording that lasted less than MIN_DURATION_MS
\* (also one that follows a longer recording) has, once its stop handler ran,
\* reported the too-short error exactly once, skipped decoding and not called
\* onRecorded.
C3_ShortRecordingRejected ==
  \A c \in VL_Calls :
    (vl.calls[c].pc \in {"short", "decoding", "done", "decodeFailed"}
       /\ vl.calls[c].elapsed < MIN_DURATION_MS)
      => /\ vl.calls[c].errors = <<"tooShort">>
         /\ vl.calls[c].recorded = <<>>
         /\ ~vl.calls[c].assembled

\* C4: in both recorder components a rejected microphone acquisition has
\* produced exactly one onError with the permission message, and a failed
\* decode exactly one onError with the generic processing message.
C4_FailuresSurfaced ==
  /\ \A c \in VL_Calls :
       /\ vl.calls[c].pc = "denied" => vl.calls[c].errors = <<"permission">>
       /\ vl.calls[c].pc = "decodeFailed" => vl.calls[c].errors = <<"processing">>
  /\ \A c \in AR_Calls :
       /\ ar.calls[c].pc = "denied" => ar.calls[c].errors = <<"permission">>
       /\ ar.calls[c].pc = "decodeFailed" => ar.calls[c].errors = <<"processing">>

\* C5: in AudioRecorder a recording or file whose decode failed has left no
\* partial result: it did not signal onRecordingAvailable(true), the playback
\* URL is not its blob, hasRecording is not true on its account, and
\* getCurrentResult is not built from it.
C5_NoPartialResult ==
  \A c \in AR_Calls :
    ar.calls[c].pc = "decodeFailed"
      => /\ ~ar.calls[c].available
         /\ ar.audioUrl # c
         /\ AR_getCurrentResult(ar) # c
         /\ (\A d \in AR_Calls : ar.calls[d].pc # "done") => ~ar.hasRecording

\* no handler of the component is between a request and its completion
VL_Quiet ==
  /\ ~vl.isRecording /\ vl.status = "idle"
  /\ \A c \in VL_Calls : vl.calls[c].pc \notin {"awaitMic", "stopping", "decoding"}
AR_Quiet ==
  /\ ~ar.isRecording
  /\ \A c \in AR_Calls : ar.calls[c].pc \notin {"awaitMic", "stopping", "decoding"}

\* C6: whenever a recorder component is idle (it shows not-recording and no
\* start or stop handler is pending) every microphone track it acquired is
\* ended, no MediaRecorder it created records, no analysis node is connected.
C6_IdleReleasesAll ==
  /\ VL_Quiet => (vl.liveTracks = {} /\ VL_Recording = {} /\ vl.connected = {})
  /\ AR_Quiet => (ar.liveTracks = {} /\ AR_Recording = {} /\ ar.connected = {})

\* the live loop has a frame pending that will paint
AR_LiveLoopRuns == ar.isLiveAnimRef /\ ar.liveLoops # {}
\* the playback-progress loop has a frame pending
AR_PlayLoopRuns == ar.playLoops # {}

\* C7: in AudioRecorder the live-recording loop (drawLive) and the
\* playback-progress loop never run on the canvas at the same time.
C7_OneDrawingLoop == ~(AR_LiveLoopRuns /\ AR_PlayLoopRuns)

\* C8: the blob assembled when a recording stops is exactly the sequence of
\* non-empty chunks its own recorder delivered, in arrival order.
C8_BlobIsOwnChunks ==
  /\ \A c \in VL_Calls :
       vl.calls[c].assembled => vl.calls[c].blob = vl.calls[c].delivered
  /\ \A c \in AR_Calls :
       ar.calls[c].assembled => ar.calls[c].blob = ar.calls[c].delivered

\* the signed 16-bit value stored little-endian at offset off of buf
ReadInt16(buf, off) ==
  LET u == buf[off + 1] + 256 * buf[off + 2]
  IN IF u >= 32768 THEN u - 65536 ELSE u
ReadUint16(buf, off) == buf[off + 1] + 256 * buf[off + 2]
ReadUint32(buf, off) ==
  buf[off + 1] + 256 * buf[off + 2] + 65536 * buf[off + 3] + 16777216 * buf[off + 4]

\* the 16-bit value the asymmetric scaling gives the sample k / SampleDen
Asymmetric16(k) ==
  IF k <= 0 - SampleDen THEN 0 - 32768
  ELSE IF k >= SampleDen THEN 32767
  ELSE IF k < 0 THEN 0 - (((0 - k) * 32768) \div SampleDen)
  ELSE (k * 32767) \div SampleDen

\* the outputs the encoders have produced so far
WavOutputs == {b \in {wav.ar, wav.ap, wav.dash} : b # <<>>}

\* C9: every encoder stores, for each sample, the clamped sample scaled by
\* 0x8000 when negative and by 0x7FFF otherwise, so the three encoders agree.
C9_AsymmetricScaling ==
  \A b \in WavOutputs : \A i \in 1..Len(wav.samples) :
    ReadInt16(b, 44 + 2 * (i - 1)) = Asymmetric16(wav.samples[i])

\* C10: for a buffer of length L at rate R every encoder produces 44 + 2L
\* bytes whose header declares RIFF size 36 + 2L, PCM, 1 channel, rate R,
\* byte rate 2R, block align 2, 16 bits and a data chunk of 2L bytes.
C10_HeaderExact ==
  \A b \in WavOutputs :
    LET L == Len(wav.samples)
        R == wav.sampleRate
    IN /\ Len(b) = 44 + 2 * L
       /\ SubSeq(b, 1, 4) = <<82, 73, 70, 70>>
       /\ ReadUint32(b, 4) = 36 + 2 * L
       /\ SubSeq(b, 9, 16) = <<87, 65, 86, 69, 102, 109, 116, 32>>
       /\ ReadUint32(b, 16) = 16
       /\ ReadUint16(b, 20) = 1
       /\ ReadUint16(b, 22) = 1
       /\ ReadUint32(b, 24) = R
       /\ ReadUint32(b, 28) = 2 * R
       /\ ReadUint16(b, 32) = 2
       /\ ReadUint16(b, 34) = 16
       /\ SubSeq(b, 37, 40) = <<100, 97, 116, 97>>
       /\ ReadUint32(b, 40) = 2 * L

\* C10 witness: the three encoders have encoded a non-empty buffer
C10_Witness ==
  /\ wav.ar # <<>> /\ wav.ap # <<>> /\ wav.dash # <<>>
  /\ Len(wav.samples) = MaxLen

\* the reference decoder: the inverse of the specified scaling, a stored
\* 16-bit value v is the sample v / RefDecodeDen(v)
RefDecodeDen(v) == IF v < 0 THEN 32768 ELSE 32767

Abs(x) == IF x < 0 THEN 0 - x ELSE x

\* |k / SampleDen - v / RefDecodeDen(v)| <= 1 / 32767, cross-multiplied
WithinQuantization(k, v) ==
  Abs(k * RefDecodeDen(v) - v * SampleDen) * 32767 <= SampleDen * RefDecodeDen(v)

\* C11: for a buffer with samples in [-1,1], every sample decoded from the
\* 16-bit data an encoder wrote is within 1/32767 of the original sample.
C11_RoundTrip ==
  (\A i \in 1..Len(wav.samples) : Abs(wav.samples[i]) <= SampleDen)
    => \A b \in WavOutputs : \A i \in 1..Len(wav.samples) :
         WithinQuantization(wav.samples[i], ReadInt16(b, 44 + 2 * (i - 1)))

\* the buffers the capture and load paths have passed on so far
MixOutputs ==
  {o[1] : o \in {x \in {dsp.arStop, dsp.arLoad, dsp.apLoad, dsp.vlStop} : x # <<>>}}

\* C12: when the decoded audio has more than one channel, the buffer a path
\* passes on is the mean of channels 0 and 1 at every index, for AudioRecorder
\* stop and load, AudioPlayer load and VoiceLoginRecorder stop.
C12_MonoMix ==
  Len(dsp.channels) > 1 =>
    \A o \in MixOutputs :
      /\ Len(o) = Len(dsp.channels[1])
      /\ \A i \in 1..Len(o) : o[i] = dsp.channels[1][i] + dsp.channels[2][i]

\* the results the resamplePcm calls have returned so far
ResampleOutputs == {o[1] : o \in {x \in {dsp.arOut, dsp.vlOut} : x # <<>>}}

\* C13: on the linear-interpolation path the returned buffer has a length
\* that is a nearest integer to |B| * R2 / R1 (so 0 for an empty input), for
\* every input length and every pair of different rates.
C13_FallbackLength ==
  \A o \in ResampleOutputs :
    o.path = "fallback" =>
      /\ 2 * Abs(Len(o.samples) * dsp.fromRate - Len(dsp.input) * dsp.toRate)
           <= dsp.fromRate
      /\ Len(dsp.input) = 0 => Len(o.samples) = 0

\* C13 witness: the interpolation path has run on a full-length buffer whose
\* exact ratio is not an integer
C13_Witness ==
  \E o \in ResampleOutputs :
    /\ o.path = "fallback"
    /\ Len(dsp.input) = MaxLen
    /\ (Len(dsp.input) * dsp.toRate) % dsp.fromRate # 0

\* C14: resamplePcm(B, R, R) returns B itself, same length and values, and
\* takes neither the offline-rendering nor the interpolation path.
C14_SameRateIdentity ==
  dsp.fromRate = dsp.toRate =>
    \A o \in ResampleOutputs :
      o.path = "same" /\ o.den = SampleDen /\ o.samples = dsp.input

\* C14 witness: both components resampled a full-length buffer to its own rate
C14_Witness ==
  /\ dsp.fromRate = dsp.toRate
  /\ Len(dsp.input) = MaxLen
  /\ dsp.arOut # <<>> /\ dsp.vlOut # <<>>

\* C15: a particle spawned with life = maxLife is in the active set through
\* its first maxLife - 1 updateParticles ticks and leaves it at tick maxLife,
\* not earlier and not later.
C15_ParticleLifetime ==
  /\ \A g \in pt.removed : g.spawnLife = g.maxLife => g.ticks = g.maxLife
  /\ \A i \in 1..Len(pt.particles) :
       pt.particles[i].spawnLife = pt.particles[i].maxLife
         => pt.particles[i].ticks < pt.particles[i].maxLife
\* C16: in AudioPlayer every zoom level reached from 1 by zoom-in and
\* zoom-out steps lies within [0.1, 10], a step below 0.1 giving 0.1 and a
\* step above 10 giving 10, and the samples-per-pixel value the waveform
\* renderer computed from it is at least 1.
C16_ZoomWithinLimits ==
  /\ zoomMin <= pl.zoomLevel /\ pl.zoomLevel <= zoomMax
  /\ pl.loaded => pl.samplesPerPixel >= 1

\* a zoom-out step clamped at 0.1 whose redraw had to raise a computed
\* samples-per-pixel of 0 to 1
C16_Witness ==
  /\ pl.ev.op = "zoomOut" /\ pl.zoomLevel = zoomMin
  /\ (pl.samples * pl.zoomLevel) \div (pl.width * 10) = 0
  /\ pl.samplesPerPixel = 1

\* C17: on both recorder components a stop called while no recording has
\* been started changes nothing: recording flag, status, duration, chunks,
\* stream, recorder, timers, animation frame and reported errors are what
\* they were before the call.
C17_StopBeforeStart ==
  /\ dsp.vl # <<>> => dsp.vl[2] = dsp.vl[1]
  /\ dsp.ar # <<>> => dsp.ar[2] = dsp.ar[1]

\* handleStop ran on the state after mount, and stopRecording while a start
\* was waiting for the microphone
C17_Witness ==
  /\ dsp.ar # <<>> /\ dsp.ar[1].calls = <<>>
  /\ dsp.vl # <<>> /\ dsp.vl[1].status = "recording"
  /\ \A c \in 1..Len(dsp.vl[1].calls) : dsp.vl[1].calls[c].pc = "awaitMic"

\* C18: in AudioPlayer, with a loaded audio of known duration, every pointer
\* move between a mouse-down on the canvas and the next mouse-up, inside or
\* outside the canvas, sets the playback position to
\* clamp(offset, 0, width) / width * duration; the mouse-up removes the
\* window listeners of the drag, and a pointer move after it changes nothing.
C18_DragSeeks ==
  /\ (pl.ev.op = "move" /\ pl.listeners # <<>> /\ pl.loaded /\ pl.duration # 0)
       => /\ pl.audioTime
               = (Max(0, Min(pl.width, pl.ev.x)) * pl.duration) \div pl.width
          /\ pl.currentTime = pl.audioTime
  /\ pl.ev.op = "up" => (pl.listeners = <<>> /\ ~pl.isSeeking)
  /\ (pl.ev.op = "move" /\ pl.listeners = <<>>)
       => (pl.audioTime = pl.ev.t0 /\ pl.currentTime = pl.ev.c0)

\* C19: in AudioPlayer with a loaded audio of known duration, ArrowLeft sets
\* the position to max(0, t - d) and ArrowRight to min(duration, t + d),
\* t the position before the key and d 5 seconds, or 1 second with Shift;
\* both keys call preventDefault; any other key changes no position and
\* prevents nothing; the position is always within [0, duration].
C19_KeySeek ==
  /\ (pl.ev.op = "key" /\ pl.loaded /\ pl.duration # 0)
       => LET d == (IF pl.ev.shift THEN smallStep ELSE largeStep) * AP_Width
          IN /\ pl.ev.key = "ArrowLeft"
                  => /\ pl.audioTime = Max(0, pl.ev.t0 - d)
                     /\ pl.currentTime = pl.audioTime /\ pl.ev.pd
             /\ pl.ev.key = "ArrowRight"
                  => /\ pl.audioTime = Min(pl.duration, pl.ev.t0 + d)
                     /\ pl.currentTime = pl.audioTime /\ pl.ev.pd
             /\ pl.ev.key \notin {"ArrowLeft", "ArrowRight"}
                  => /\ pl.audioTime = pl.ev.t0 /\ pl.currentTime = pl.ev.c0
                     /\ ~pl.ev.pd
  /\ (pl.loaded /\ pl.duration # 0)
       => (0 <= pl.audioTime /\ pl.audioTime <= pl.duration)

\* ArrowLeft without Shift pressed less than 5 seconds into the audio: the
\* position is clamped to 0
C19_Witness ==
  /\ pl.ev.op = "key" /\ pl.ev.key = "ArrowLeft" /\ ~pl.ev.shift
  /\ pl.loaded /\ pl.duration # 0
  /\ pl.ev.t0 > 0 /\ pl.ev.t0 < largeStep * AP_Width
  /\ pl.audioTime = 0 /\ pl.ev.pd

C21_OneAudioContext ==
  /\ vl.ctxCount <= 1
  /\ ar.ctxCount <= 1

\* C23: in AudioRecorder, once resetRecording ran, getCurrentResult returns
\* no result until a later recording or file load has been decoded: while
\* the preview buffer is empty (nothing was decoded yet, or reset cleared it
\* and nothing was decoded since) there is no current result.
C23_ResetDestroys ==
  ar.staticWave = 0 => AR_getCurrentResult(ar) = 0

\* C24: on a recorder with a maximum duration (VoiceLoginRecorder always,
\* AudioRecorder when maxDurationMs is given) the duration timer stops a
\* recording at its first tick with elapsed >= the maximum, so that no
\* recorder is found recording that long after a tick.
C24_AutoStop ==
  /\ \A c \in VL_Calls :
       vl.calls[c].pc = "recording"
         => now - vl.calls[c].startTs < DEFAULT_MAX_DURATION_MS
  /\ \A c \in AR_Calls :
       (ar.calls[c].pc = "recording" /\ ar.maxDurationMs # 0)
         => now - ar.calls[c].startTs < ar.maxDurationMs

\* C25: the durationMs of the result AudioRecorder builds when a recording
\* stops is the time that recording ran, as the duration timer measured it,
\* not a value from before the recording began or from an earlier one.
C25_ResultDuration ==
  \A c \in AR_Calls :
    (ar.calls[c].kind = "rec" /\ ar.calls[c].pc = "done"
       /\ ar.lastResultRef.src = c)
      => ar.lastResultRef.durationMs = ar.calls[c].elapsed

\* C27: the stop handler of one recording (its onstop, or the rest of it
\* after the awaited decode) leaves the resources of a newer recording alone:
\* when recording d was started after the stop of recording c was requested
\* and is recording while c's handler runs, that step does not stop d's
\* stream tracks, disconnect d's analysis nodes or cancel d's live loop.
C27_OwnTeardown ==
  [][ /\ \A c \in VL_Calls, d \in VL_Calls :
           ( /\ vl.calls[c].pc \in {"stopping", "decoding"}
             /\ vl'.calls[c].pc # vl.calls[c].pc
             /\ vl.calls[d].pc = "recording"
             /\ vl.calls[d].startTs
                  >= vl.calls[c].startTs + vl.calls[c].elapsed )
             => /\ d \in vl.liveTracks => d \in vl'.liveTracks
                /\ d \in vl.connected => d \in vl'.connected
                /\ d \in vl.rafs => d \in vl'.rafs
      /\ \A c \in AR_Calls, d \in AR_Calls :
           ( /\ ar.calls[c].pc \in {"stopping", "decoding"}
             /\ ar'.calls[c].pc # ar.calls[c].pc
             /\ ar.calls[d].pc = "recording"
             /\ ar.calls[d].startTs
                  >= ar.calls[c].startTs + ar.calls[c].elapsed )
             => /\ d \in ar.liveTracks => d \in ar'.liveTracks
                /\ d \in ar.connected => d \in ar'.connected
                /\ d \in ar.liveLoops => d \in ar'.liveLoops ]_vars

\* C28: in VoiceLoginRecorder a press whose microphone acquisition was
\* still pending when the button was released, with no press since, starts
\* no recording: its call never records, the component is not in the
\* recording state, and no recorder, duration timer or live microphone
\* track of that call exists.
C28_ReleaseCancelsStart ==
  \A c \in VL_Calls :
    ( /\ dsp.vl # <<>>
      /\ Len(dsp.vl[2].calls) = Len(vl.calls)
      /\ dsp.vl[1].calls[c].pc = "awaitMic" )
      => /\ vl.calls[c].pc \in {"awaitMic", "denied", "startFailed"}
         /\ ~vl.isRecording
         /\ vl.mediaRecorderRef # c
         /\ c \notin vl.timers
         /\ c \notin vl.liveTracks

\* C30: in AudioRecorder what Save and Download export is what the preview
\* shows: once suppression produced tracks, getCurrentResult is built from
\* the buffer of the track in the preview, and so is what Save handed over
\* while that track was selected.
C30_ExportIsPreview ==
  (ar.separatedTracks.foreground # 0 /\ ar.staticWave # 0)
    => AR_getCurrentResult(ar) = ar.staticWave

\* a step in which the suppression call of AudioRecorder / AudioPlayer in
\* flight settled with success = false or an exception
C22_FailedAR ==
  ar.suppress # <<>> /\ ar'.suppress = <<>> /\ ar'.response[1].kind # "success"

C22_FailedAP ==
  pl.suppress # <<>> /\ pl'.suppress = <<>> /\ pl'.response[1].kind # "success"

\* what a failed suppression leaves alone and resets, in both components:
\* one more onError call, no further remote call, tracks, preview buffer and
\* playback URL as they were, the processing flag false
C22_FailureContained ==
  /\ C22_FailedAR
       => /\ Len(ar'.errors) = Len(ar.errors) + 1
          /\ ar'.remoteCalls = ar.remoteCalls
          /\ ar'.separatedTracks = ar.separatedTracks
          /\ ar'.selectedTrack = ar.selectedTrack
          /\ ar'.staticWave = ar.staticWave
          /\ ar'.audioUrl = ar.audioUrl
          /\ ar'.lastResultRef = ar.lastResultRef
          /\ ~ar'.isProcessing
  /\ C22_FailedAP
       => /\ Len(pl'.errors) = Len(pl.errors) + 1
          /\ pl'.remoteCalls = pl.remoteCalls
          /\ pl'.tracks = pl.tracks
          /\ pl'.loaded = pl.loaded /\ pl'.samples = pl.samples
          /\ ~pl'.isProcessing

\* C22: when the remote suppression call answers success = false or throws,
\* onError is invoked exactly once, the call is not retried, no track,
\* preview buffer or playback URL changes and the processing flag is false
\* afterwards.  AudioRecorder passes the response's or exception's message
\* itself, AudioPlayer passes it after "Background suppression failed: ";
\* a response without a message is reported as "Suppression failed".
C22_FailureReported ==
  [][ /\ C22_FailureContained
      /\ C22_FailedAR
           => ar'.errors[Len(ar'.errors)]
                = IF ar'.response[1].msg # <<>> THEN ar'.response[1].msg
                  ELSE <<"Suppression failed">>
      /\ C22_FailedAP
           => pl'.errors[Len(pl'.errors)]
                = <<"Background suppression failed: ">>
                    \o (IF pl'.response[1].msg # <<>> THEN pl'.response[1].msg
                        ELSE <<"Suppression failed">>) ]_vars

\* C22 as stated: both components hand onError the message of the response
\* or of the exception itself
C22_RawMessage ==
  [][ /\ C22_FailureContained
      /\ C22_FailedAR => ar'.errors[Len(ar'.errors)] = ar'.response[1].msg
      /\ C22_FailedAP => pl'.errors[Len(pl'.errors)] = pl'.response[1].msg
    ]_vars

\* both components have reported a failed suppression: AudioRecorder a
\* response with success = false and a message, AudioPlayer an exception
C22_Witness ==
  /\ ar.errors # <<>> /\ ar.response # <<>>
  /\ ar.response[1].kind = "failure" /\ ar.response[1].msg # <<>>
  /\ pl.errors # <<>> /\ pl.response # <<>>
  /\ pl.response[1].kind = "throw"

\* C26: in AudioPlayer at most one animation frame is pending at any time,
\* and one is pending only while the player is playing: play, pause, stop,
\* ended and every change that replaces animate cancel the pending frame
\* before the next is requested, and while not playing a seek or zoom
\* redraws once and leaves no frame requested.
C26_OneFrame ==
  LET pending == (IF pl.frameOfRef THEN 1 ELSE 0) + pl.otherFrames
  IN /\ pending <= 1
     /\ pending = 1 => pl.isPlaying

\* playback is under way, its frame has painted the position a timeupdate
\* published and has requested the next frame
C26_Witness ==
  /\ pl.isPlaying /\ pl.painted /\ pl.frameOfRef
  /\ pl.currentTime > 0

\* C29: in AudioPlayer, when the audioUrl prop changed while the load of
\* an earlier URL was in flight, then once every load has settled the track
\* list and the audio element are those of the latest audioUrl, in whatever
\* order the loads completed.
C29_LatestUrlWins ==
  (pl.loaded /\ pl.loads = {})
    => /\ pl.trackUrl = pl.audioUrl
       /\ pl.elementUrl = pl.audioUrl

====
